---- MODULE Spec2Model ----
(***************************************************************************)
(* SwiftCart (src/script.js): the Cart store persisted in localStorage and *)
(* the ProductAPI catalog client with its presentation glue.               *)
(*                                                                         *)
(* Conventions of the model                                                *)
(*  - a price is a whole number of cents (10.00 is 1000);                  *)
(*  - a JSON text is the sequence of its tokens, each token a string:      *)
(*    "[", "{", "\"id\"", ":", "1000", ",", ...;                           *)
(*  - the blob store (localStorage) is get/set over one key; a set always  *)
(*    succeeds (quota failures are outside the model);                     *)
(*  - a category name is the sequence of its characters, so that           *)
(*    charAt/slice/toUpperCase/toLowerCase are computed, not looked up.    *)
(***************************************************************************)
EXTENDS Integers, Sequences, FiniteSets, TLC

VARIABLES
    \* ---- Cart (src/script.js 5-133) ----
    cartStatus,     \* "ready": new Cart() returned; "threw": the constructor threw
    items,          \* Cart.items
    storage,        \* localStorage['swiftcart_items']: [present, text]
    cartUI,         \* what updateUI last wrote into the page
    notification,   \* [shown, message]: the [data-notification] element
    log,            \* the calls the last Cart entry point made, in order
    lastOp,         \* the last Cart entry point: [name, arg]
    adds,           \* ghost: addItem calls per id since that id was last removed
    \* ---- ProductAPI (138-219) and the products page (228-412) ----
    products,           \* productAPI.products
    categories,         \* productAPI.categories
    selectedCategory,   \* productAPI.selectedCategory
    spinner,            \* #loadingSpinner: "absent", "flex" (shown) or "none" (hidden)
    buttons,            \* the category buttons rendered, in order
    activeButtons,      \* the categories whose button carries btn-primary
    categoriesFetch,    \* TRUE while the fetch of getCategories is in flight
    fetches,            \* the getProducts calls awaiting their fetch, in issue order
    timers,             \* the 500 ms render timers of displayProducts, in firing order
    grid,               \* the product grid in the page: [rendered, cards]
    lastCall            \* the last ProductAPI call that returned, with its value

cartVars == <<cartStatus, items, storage, cartUI, notification, log, lastOp, adds>>

catalogVars ==
    <<products, categories, selectedCategory, spinner, buttons, activeButtons,
      categoriesFetch, fetches, timers, grid, lastCall>>

vars == <<cartVars, catalogVars>>

(***************************************************************************)
(* Bounds and inputs                                                       *)
(***************************************************************************)
MaxQuantity == 3

\* getProducts calls in flight plus render timers pending, at most.
MaxPending == 2

\* Product descriptors handed to Cart.addItem. handleAddToCart (421-445)
\* builds one from a rendered card (name and image of the local image
\* table, price parsed back from the card); addProductToCart (554-564)
\* builds one from the details modal (name = the API title), so one id can
\* arrive with two different names.
Products ==
    { [id |-> "product_1", name |-> "Bag Combo",  price |-> 1000, image |-> "Assets/bag combo.jpg"],
      [id |-> "product_1", name |-> "Widget",     price |-> 1000, image |-> "Assets/bag combo.jpg"],
      [id |-> "product_2", name |-> "Blue Shoes", price |-> 500,  image |-> "Assets/blue-shoes.jpg"],
      [id |-> "product_3", name |-> "Brown Bag",  price |-> 995,  image |-> "Assets/brown bag.jpg"] }

\* Ids handed to Cart.removeItem: every product id and one that is never added.
RemoveIds == {p.id : p \in Products} \cup {"product_9"}

ProductIds == {p.id : p \in Products}

(***************************************************************************)
(* JSON.stringify / JSON.parse over token sequences                        *)
(***************************************************************************)
Quote(s) == "\"" \o s \o "\""

\* The strings and numbers a stored cart can hold.
StringUniverse ==
    {p.id : p \in Products} \cup {p.name : p \in Products} \cup {p.image : p \in Products}
        \cup {"id", "name", "price", "image", "quantity"}

NumberUniverse == {p.price : p \in Products} \cup (0..MaxQuantity)

IsStringToken(tok) == \E s \in StringUniverse : Quote(s) = tok

IsNumberToken(tok) == \E n \in NumberUniverse : ToString(n) = tok

Unquote(tok) == CHOOSE s \in StringUniverse : Quote(s) = tok

ToNumber(tok) == CHOOSE n \in NumberUniverse : ToString(n) = tok

\* JSON.stringify of one line item: the own properties in insertion order.
StringifyItem(item) ==
    << "{", Quote("id"), ":", Quote(item.id), ",",
            Quote("name"), ":", Quote(item.name), ",",
            Quote("price"), ":", ToString(item.price), ",",
            Quote("image"), ":", Quote(item.image), ",",
            Quote("quantity"), ":", ToString(item.quantity), "}" >>

RECURSIVE StringifyElements(_)
StringifyElements(s) ==
    IF s = <<>> THEN <<>>
    ELSE IF Len(s) = 1 THEN StringifyItem(s[1])
    ELSE StringifyItem(s[1]) \o <<",">> \o StringifyElements(Tail(s))

JSONstringify(s) == <<"[">> \o StringifyElements(s) \o <<"]">>

SyntaxError == [ok |-> FALSE, null |-> FALSE, value |-> <<>>, next |-> 0]

\* The members of an object from token i on: key ":" value ("," ...)* "}".
RECURSIVE ParseMembers(_, _, _)
ParseMembers(t, i, acc) ==
    IF i + 3 > Len(t) THEN SyntaxError
    ELSE IF ~(IsStringToken(t[i]) /\ t[i + 1] = ":") THEN SyntaxError
    ELSE IF ~(IsStringToken(t[i + 2]) \/ IsNumberToken(t[i + 2])) THEN SyntaxError
    ELSE LET k == Unquote(t[i])
             v == IF IsNumberToken(t[i + 2]) THEN ToNumber(t[i + 2]) ELSE Unquote(t[i + 2])
             obj == (k :> v) @@ acc
         IN  IF t[i + 3] = "}" THEN [ok |-> TRUE, null |-> FALSE, value |-> obj, next |-> i + 4]
             ELSE IF t[i + 3] = "," THEN ParseMembers(t, i + 4, obj)
             ELSE SyntaxError

\* The elements of an array from token i on: object ("," object)* "]".
RECURSIVE ParseElements(_, _, _)
ParseElements(t, i, acc) ==
    IF i > Len(t) \/ t[i] # "{" THEN SyntaxError
    ELSE LET o == ParseMembers(t, i + 1, <<>>)
         IN  IF ~o.ok \/ o.next > Len(t) THEN SyntaxError
             ELSE IF t[o.next] = "]"
                  THEN [ok |-> TRUE, null |-> FALSE, value |-> Append(acc, o.value), next |-> o.next + 1]
             ELSE IF t[o.next] = "," THEN ParseElements(t, o.next + 1, Append(acc, o.value))
             ELSE SyntaxError

\* JSON.parse: [ok |-> FALSE] is the SyntaxError it throws.
JSONparse(t) ==
    IF t = <<"null">> THEN [ok |-> TRUE, null |-> TRUE, value |-> <<>>, next |-> 2]
    ELSE IF Len(t) < 2 \/ t[1] # "[" THEN SyntaxError
    ELSE IF t[2] = "]"
         THEN (IF Len(t) = 2 THEN [ok |-> TRUE, null |-> FALSE, value |-> <<>>, next |-> 3]
               ELSE SyntaxError)
    ELSE LET r == ParseElements(t, 2, <<>>)
         IN  IF r.ok /\ r.next = Len(t) + 1 THEN r ELSE SyntaxError

(***************************************************************************)
(* Cart: the methods, as functions of the cart object c                    *)
(*   c = [items, storage, ui, notification, log]                           *)
(***************************************************************************)
Absent == [present |-> FALSE, text |-> <<>>]

Blob(text) == [present |-> TRUE, text |-> text]

\* Number.prototype.toFixed(2) of an amount of cents.
toFixed2(cents) ==
    ToString(cents \div 100) \o "." \o ToString((cents % 100) \div 10) \o ToString(cents % 10)

RECURSIVE SumPrices(_)
SumPrices(s) == IF s = <<>> THEN 0 ELSE s[1].price + SumPrices(Tail(s))

\* Array.prototype.reduce((acc, item) => acc + f(item), 0), left to right.
RECURSIVE reduceTotal(_, _)
reduceTotal(s, total) ==
    IF s = <<>> THEN total
    ELSE reduceTotal(Tail(s), total + (s[1].price * s[1].quantity))

RECURSIVE reduceCount(_, _)
reduceCount(s, count) ==
    IF s = <<>> THEN count
    ELSE reduceCount(Tail(s), count + s[1].quantity)

\* Mutant: the quantity is left out of the line total.
getTotalNoQuantity(its) == toFixed2(SumPrices(its))

getTotal(its) == toFixed2(reduceTotal(its, 0))

\* Mutant: the line items are counted, not their quantities.
getCountLines(its) == Len(its)

getCount(its) == reduceCount(its, 0)

\* Mutant: the cart is read back from a key nothing is stored under.
loadFromLocalStorageWrongKey(store) ==
    [ok |-> TRUE, null |-> FALSE, value |-> <<>>, next |-> 0]

\* loadFromLocalStorage: saved ? JSON.parse(saved) : []   (null and "" are falsy)
loadFromLocalStorage(store) ==
    IF store.present /\ store.text # <<>>
    THEN JSONparse(store.text)
    ELSE [ok |-> TRUE, null |-> FALSE, value |-> <<>>, next |-> 0]

saveToLocalStorage(c) ==
    [c EXCEPT !.storage = Blob(JSONstringify(c.items)),
              !.log = Append(@, "saveToLocalStorage")]

updateCartCount(c) ==
    LET count == getCount(c.items)
    IN  [c EXCEPT !.ui.count = count,
                  !.ui.display = IF count > 0 THEN "inline-block" ELSE "none",
                  !.ui.subtotal = "$" \o getTotal(c.items),
                  !.ui.itemsCount = ToString(count) \o " " \o (IF count = 1 THEN "Item" ELSE "Items")]

updateCartSummary(c) ==
    IF c.items = <<>>
    THEN [c EXCEPT !.ui.summary = <<>>, !.ui.total = "$0.00"]
    ELSE [c EXCEPT !.ui.summary = [i \in DOMAIN c.items |-> c.items[i].id],
                   !.ui.total = "$" \o getTotal(c.items)]

updateUI(c) ==
    LET d == updateCartSummary(updateCartCount(c))
    IN  [d EXCEPT !.log = Append(@, "updateUI")]

showNotification(c, message) ==
    [c EXCEPT !.notification = [shown |-> TRUE, message |-> message],
              !.log = Append(@, "showNotification")]

\* Array.prototype.find: the index of the first match, 0 when there is none.
find(its, id) ==
    IF \E i \in DOMAIN its : its[i].id = id
    THEN CHOOSE i \in DOMAIN its : its[i].id = id /\ \A j \in 1..(i - 1) : its[j].id # id
    ELSE 0

\* Array.prototype.filter(item => item.id !== productId)
RECURSIVE filterOut(_, _)
filterOut(its, productId) ==
    IF its = <<>> THEN <<>>
    ELSE IF its[1].id # productId THEN <<its[1]>> \o filterOut(Tail(its), productId)
    ELSE filterOut(Tail(its), productId)

\* Mutant: the existing line item is not looked up, every add appends.
addItemAlwaysPush(c, product) ==
    LET changed == [c EXCEPT !.items = Append(@, [id |-> product.id, name |-> product.name,
                                                 price |-> product.price, image |-> product.image,
                                                 quantity |-> 1]),
                             !.log = Append(@, "items")]
    IN  showNotification(updateUI(saveToLocalStorage(changed)), product.name \o " added to cart!")

\* Mutant: the cart is persisted before the in-memory change.
addItemSaveFirst(c, product) ==
    LET saved == saveToLocalStorage(c)
        existing == find(saved.items, product.id)
        changed ==
            IF existing # 0
            THEN [saved EXCEPT !.items[existing].quantity = @ + 1, !.log = Append(@, "items")]
            ELSE [saved EXCEPT !.items = Append(@, [id |-> product.id, name |-> product.name,
                                                   price |-> product.price, image |-> product.image,
                                                   quantity |-> 1]),
                               !.log = Append(@, "items")]
    IN  showNotification(updateUI(changed), product.name \o " added to cart!")

addItem(c, product) ==
    LET existing == find(c.items, product.id)
        changed ==
            IF existing # 0
            THEN [c EXCEPT !.items[existing].quantity = @ + 1, !.log = Append(@, "items")]
            ELSE [c EXCEPT !.items = Append(@, [id |-> product.id, name |-> product.name,
                                               price |-> product.price, image |-> product.image,
                                               quantity |-> 1]),
                           !.log = Append(@, "items")]
    IN  showNotification(updateUI(saveToLocalStorage(changed)), product.name \o " added to cart!")

\* Mutant: nothing is persisted, refreshed or notified when no line item matches.
removeItemIfPresent(c, productId) ==
    IF \A i \in DOMAIN c.items : c.items[i].id # productId
    THEN c
    ELSE LET changed == [c EXCEPT !.items = filterOut(@, productId), !.log = Append(@, "items")]
         IN  showNotification(updateUI(saveToLocalStorage(changed)), "Item removed from cart")

removeItem(c, productId) ==
    LET changed == [c EXCEPT !.items = filterOut(@, productId), !.log = Append(@, "items")]
    IN  showNotification(updateUI(saveToLocalStorage(changed)), "Item removed from cart")

\* The page as served, before script.js runs: static markup, no notification.
BlankUI == [count |-> 0, display |-> "none", subtotal |-> "$0.00", itemsCount |-> "0 Items",
            summary |-> <<>>, total |-> "$0.00"]

NoNotification == [shown |-> FALSE, message |-> ""]

\* new Cart() over the blob store: loadFromLocalStorage() || [], then
\* initializeCart() -> updateUI(). JSON.parse throwing leaves the constructor
\* by the exception: nothing after line 7 runs.
constructor(store) ==
    LET loaded == loadFromLocalStorage(store)
        fresh == [items |-> <<>>, storage |-> store, ui |-> BlankUI,
                  notification |-> NoNotification, log |-> <<"loadFromLocalStorage">>]
    IN  IF ~loaded.ok THEN [threw |-> TRUE, cart |-> fresh]
        ELSE [threw |-> FALSE,
              cart |-> updateUI([fresh EXCEPT !.items = IF loaded.null THEN <<>> ELSE loaded.value])]

(***************************************************************************)
(* Strings of the catalog, as character sequences                          *)
(***************************************************************************)
All == <<"A", "l", "l">>

electronics == <<"e", "l", "e", "c", "t", "r", "o", "n", "i", "c", "s">>

jewelery == <<"j", "e", "w", "e", "l", "e", "r", "y">>

mensClothing == <<"m", "e", "n", "'", "s", " ", "c", "l", "o", "t", "h", "i", "n", "g">>

womensClothing == <<"w", "o", "m", "e", "n", "'", "s", " ", "c", "l", "o", "t", "h", "i", "n", "g">>

LowerCase ==
    <<"a", "b", "c", "d", "e", "f", "g", "h", "i", "j", "k", "l", "m",
      "n", "o", "p", "q", "r", "s", "t", "u", "v", "w", "x", "y", "z">>

UpperCase ==
    <<"A", "B", "C", "D", "E", "F", "G", "H", "I", "J", "K", "L", "M",
      "N", "O", "P", "Q", "R", "S", "T", "U", "V", "W", "X", "Y", "Z">>

\* String.prototype.toUpperCase / toLowerCase, per character and per string.
toUpperChar(ch) ==
    IF \E i \in DOMAIN LowerCase : LowerCase[i] = ch
    THEN UpperCase[CHOOSE i \in DOMAIN LowerCase : LowerCase[i] = ch]
    ELSE ch

toLowerChar(ch) ==
    IF \E i \in DOMAIN UpperCase : UpperCase[i] = ch
    THEN LowerCase[CHOOSE i \in DOMAIN UpperCase : UpperCase[i] = ch]
    ELSE ch

toLowerCase(str) == [i \in DOMAIN str |-> toLowerChar(str[i])]

\* cat.charAt(0).toUpperCase() + cat.slice(1)
capitalize(cat) ==
    IF cat = <<>> THEN <<>>
    ELSE <<toUpperChar(cat[1])>> \o SubSeq(cat, 2, Len(cat))

(***************************************************************************)
(* The remote API (fakestoreapi.com), an external collaborator             *)
(***************************************************************************)
\* GET /products: the raw records, of which the model keeps id, price and
\* category (title, description and image only feed display fields).
RemoteProducts ==
    << [id |-> 1, price |-> 10995, category |-> mensClothing],
       [id |-> 5, price |-> 69500, category |-> jewelery],
       [id |-> 9, price |-> 6400,  category |-> electronics],
       [id |-> 10, price |-> 10900, category |-> electronics],
       [id |-> 15, price |-> 5699,  category |-> womensClothing] >>

\* GET /products/categories
RemoteCategories == <<electronics, jewelery, mensClothing, womensClothing>>

RECURSIVE OfCategory(_, _)
OfCategory(raw, slug) ==
    IF raw = <<>> THEN <<>>
    ELSE IF raw[1].category = slug THEN <<raw[1]>> \o OfCategory(Tail(raw), slug)
    ELSE OfCategory(Tail(raw), slug)

\* The body the remote answers a product url with.
RemoteResponse(url) ==
    IF url.path = "products" THEN RemoteProducts ELSE OfCategory(RemoteProducts, url.slug)

\* How a fetch ends: a parsed body of the documented shape ("ok"), a rejected
\* fetch, a body that response.json() rejects, or a parsed body that is not
\* an array of the documented records (data.map throws a TypeError).
Outcomes == {"ok", "network", "parse", "shape"}

(***************************************************************************)
(* ProductAPI and the products page, as functions of the page pg           *)
(*   pg = [products, categories, selectedCategory, spinner, buttons,       *)
(*         activeButtons, fetches, timers, grid]                           *)
(***************************************************************************)
showLoadingSpinner(pg) == [pg EXCEPT !.spinner = "flex"]

hideLoadingSpinner(pg) == [pg EXCEPT !.spinner = IF @ = "absent" THEN "absent" ELSE "none"]

formatCategory(category) ==
    IF category = electronics
    THEN <<"E", "l", "e", "c", "t", "r", "o", "n", "i", "c", "s">>
    ELSE IF category = jewelery
    THEN <<"J", "e", "w", "e", "l", "r", "y">>
    ELSE IF category = mensClothing
    THEN <<"M", "e", "n", "'", "s", " ", "C", "l", "o", "t", "h", "i", "n", "g">>
    ELSE IF category = womensClothing
    THEN <<"W", "o", "m", "e", "n", "'", "s", " ", "C", "l", "o", "t", "h", "i", "n", "g">>
    ELSE category

\* The record getProducts maps a raw product to (rating and ratingHalf are
\* random and, like the text fields, read by the card markup only).
normalize(product) ==
    [id |-> "product_" \o ToString(product.id),
     apiId |-> product.id,
     price |-> product.price,
     category |-> formatCategory(product.category),
     originalCategory |-> product.category]

\* Mutant: the failure path does not return ['All'].
getCategoriesFailEmpty(pg, outcome, data) ==
    IF outcome = "ok"
    THEN LET cats == <<All>> \o [i \in DOMAIN data |-> capitalize(data[i])]
         IN  [page |-> [pg EXCEPT !.categories = cats], value |-> cats, failed |-> FALSE]
    ELSE [page |-> pg, value |-> pg.categories, failed |-> TRUE]

\* getCategories, from the settled fetch on: what it leaves in the page and
\* the value its promise resolves to.
getCategories(pg, outcome, data) ==
    IF outcome = "ok"
    THEN LET cats == <<All>> \o [i \in DOMAIN data |-> capitalize(data[i])]
         IN  [page |-> [pg EXCEPT !.categories = cats], value |-> cats, failed |-> FALSE]
    ELSE [page |-> pg, value |-> <<All>>, failed |-> TRUE]

\* getProducts up to its first await: the spinner and the url fetched.
getProductsRequest(pg, category) ==
    LET url == IF category # All
               THEN [path |-> "category", slug |-> toLowerCase(category)]
               ELSE [path |-> "products", slug |-> <<>>]
    IN  [showLoadingSpinner(pg) EXCEPT !.fetches = Append(@, [category |-> category, url |-> url])]

\* Mutant: a response is applied only while its category is still the one
\* selected (the guard the code does not have).
getProductsSettledGuarded(pg, category, outcome, data) ==
    IF outcome = "ok" /\ pg.activeButtons = {category}
    THEN LET mapped == [i \in DOMAIN data |-> normalize(data[i])]
             done == hideLoadingSpinner([pg EXCEPT !.products = mapped,
                                                   !.selectedCategory = category])
         IN  [page |-> done, value |-> done.products, failed |-> FALSE]
    ELSE IF outcome = "ok"
    THEN [page |-> hideLoadingSpinner(pg), value |-> pg.products, failed |-> FALSE]
    ELSE [page |-> hideLoadingSpinner(pg), value |-> <<>>, failed |-> TRUE]

\* getProducts from the settled fetch on.
getProductsSettled(pg, category, outcome, data) ==
    IF outcome = "ok"
    THEN LET mapped == [i \in DOMAIN data |-> normalize(data[i])]
             done == hideLoadingSpinner([pg EXCEPT !.products = mapped,
                                                   !.selectedCategory = category])
         IN  [page |-> done, value |-> done.products, failed |-> FALSE]
    ELSE [page |-> hideLoadingSpinner(pg), value |-> <<>>, failed |-> TRUE]

RECURSIVE filterCategory(_, _)
filterCategory(list, category) ==
    IF list = <<>> THEN <<>>
    ELSE IF list[1].category = category
         THEN <<list[1]>> \o filterCategory(Tail(list), category)
    ELSE filterCategory(Tail(list), category)

\* Mutant: "All" is filtered like any other category.
filterByCategoryNoAll(pg, category) ==
    [page |-> pg, value |-> filterCategory(pg.products, category), failed |-> FALSE]

filterByCategory(pg, category) ==
    IF category = All THEN [page |-> pg, value |-> pg.products, failed |-> FALSE]
    ELSE [page |-> pg, value |-> filterCategory(pg.products, category), failed |-> FALSE]

renderCategoryButtons(pg, cats) ==
    [pg EXCEPT !.buttons = cats,
               !.activeButtons = {cats[i] : i \in {j \in DOMAIN cats : cats[j] = All}}]

\* displayProducts up to its setTimeout.
displayProducts(pg, list) ==
    [showLoadingSpinner(pg) EXCEPT !.timers = Append(@, [products |-> list])]

\* Mutant: the timer callback renders the grid and leaves the spinner shown.
renderGridNoHide(pg, list) ==
    [pg EXCEPT !.grid = [rendered |-> TRUE,
                         cards |-> [i \in DOMAIN list |->
                                       [productId |-> list[i].id, apiId |-> list[i].apiId]]]]

\* The setTimeout callback of displayProducts, for the list it closed over.
renderGrid(pg, list) ==
    hideLoadingSpinner(
        [pg EXCEPT !.grid = [rendered |-> TRUE,
                             cards |-> [i \in DOMAIN list |->
                                           [productId |-> list[i].id, apiId |-> list[i].apiId]]]])

\* The category button's click handler.
clickCategory(pg, category) ==
    getProductsRequest([pg EXCEPT !.activeButtons = {category}], category)

\* new ProductAPI() and the products page before any script touched it.
BlankPage ==
    [products |-> <<>>, categories |-> <<>>, selectedCategory |-> All, spinner |-> "absent",
     buttons |-> <<>>, activeButtons |-> {}, fetches |-> <<>>, timers |-> <<>>,
     grid |-> [rendered |-> FALSE, cards |-> <<>>]]

NoCall == [op |-> "none", arg |-> <<>>, categories |-> <<>>, products |-> <<>>, failed |-> FALSE]

(***************************************************************************)
(* State machine                                                           *)
(***************************************************************************)
\* What the blob store can hold before the program ever wrote it: nothing,
\* the empty string, the JSON text null, or text that is not JSON.
InitialBlobs ==
    { Absent, Blob(<<>>), Blob(<<"null">>), Blob(<<"[", "{">>), Blob(<<"swiftcart">>) }

CartObject ==
    [items |-> items, storage |-> storage, ui |-> cartUI, notification |-> notification,
     log |-> <<>>]

PageObject ==
    [products |-> products, categories |-> categories, selectedCategory |-> selectedCategory,
     spinner |-> spinner, buttons |-> buttons, activeButtons |-> activeButtons,
     fetches |-> fetches, timers |-> timers, grid |-> grid]

NoAdds == [id \in RemoveIds |-> 0]

InstallCart(c) ==
    /\ items' = c.items
    /\ storage' = c.storage
    /\ cartUI' = c.ui
    /\ notification' = c.notification
    /\ log' = c.log

InstallPage(pg) ==
    /\ products' = pg.products
    /\ categories' = pg.categories
    /\ selectedCategory' = pg.selectedCategory
    /\ spinner' = pg.spinner
    /\ buttons' = pg.buttons
    /\ activeButtons' = pg.activeButtons
    /\ fetches' = pg.fetches
    /\ timers' = pg.timers
    /\ grid' = pg.grid

CartInit ==
    \E blob \in InitialBlobs :
        LET made == constructor(blob)
        IN  /\ cartStatus = IF made.threw THEN "threw" ELSE "ready"
            /\ items = made.cart.items
            /\ storage = made.cart.storage
            /\ cartUI = made.cart.ui
            /\ notification = made.cart.notification
            /\ log = made.cart.log
            /\ lastOp = [name |-> "constructor", arg |-> ""]
            /\ adds = NoAdds

\* The products page once script.js ran: new ProductAPI(), and on
\* DOMContentLoaded initializeProductsPage() has called getCategories().
\* When new Cart() threw, the script stopped at line 223 and none of it ran.
CatalogInit ==
    /\ products = BlankPage.products
    /\ categories = BlankPage.categories
    /\ selectedCategory = BlankPage.selectedCategory
    /\ spinner = BlankPage.spinner
    /\ buttons = BlankPage.buttons
    /\ activeButtons = BlankPage.activeButtons
    /\ fetches = BlankPage.fetches
    /\ timers = BlankPage.timers
    /\ grid = BlankPage.grid
    /\ categoriesFetch = (cartStatus = "ready")
    /\ lastCall = NoCall

\* A page load (reload, or navigation to the page) runs script.js again over
\* the same blob store: const cart = new Cart(), const productAPI = new
\* ProductAPI(), and the DOMContentLoaded listener. Requests and timers of
\* the page left are gone with it.
PageLoad ==
    LET made == constructor(storage)
    IN  /\ cartStatus' = IF made.threw THEN "threw" ELSE "ready"
        /\ InstallCart(made.cart)
        /\ lastOp' = [name |-> "constructor", arg |-> ""]
        /\ UNCHANGED adds
        /\ InstallPage(BlankPage)
        /\ categoriesFetch' = ~made.threw
        /\ lastCall' = NoCall

\* cart.addItem(product), from handleAddToCart or addProductToCart.
AddItem(product) ==
    /\ cartStatus = "ready"
    /\ \A i \in DOMAIN items : items[i].id = product.id => items[i].quantity < MaxQuantity
    /\ InstallCart(addItem(CartObject, product))
    /\ lastOp' = [name |-> "addItem", arg |-> product.id]
    /\ adds' = [adds EXCEPT ![product.id] = @ + 1]
    /\ UNCHANGED <<cartStatus, catalogVars>>

\* cart.removeItem(id), from a trash button of the cart modal or any caller.
RemoveItem(productId) ==
    /\ cartStatus = "ready"
    /\ InstallCart(removeItem(CartObject, productId))
    /\ lastOp' = [name |-> "removeItem", arg |-> productId]
    /\ adds' = [adds EXCEPT ![productId] = 0]
    /\ UNCHANGED <<cartStatus, catalogVars>>

\* The 3000 ms timer of showNotification removes the notification it showed
\* (a timer of a notification already replaced removes nothing).
NotificationTimeout ==
    /\ notification.shown
    /\ notification' = NoNotification
    /\ UNCHANGED <<cartStatus, items, storage, cartUI, log, lastOp, adds, catalogVars>>

\* The fetch of getCategories settles; initializeProductsPage's callback
\* renders the buttons and calls getProducts('All').
CategoriesSettle(outcome) ==
    /\ categoriesFetch
    /\ LET got == getCategories(PageObject, outcome, RemoteCategories)
           rendered == renderCategoryButtons(got.page, got.value)
       IN  /\ InstallPage(getProductsRequest(rendered, All))
           /\ lastCall' = [op |-> "getCategories", arg |-> <<>>, categories |-> got.value,
                           products |-> <<>>, failed |-> got.failed]
    /\ categoriesFetch' = FALSE
    /\ UNCHANGED cartVars

\* A click on the category button i.
ClickCategory(i) ==
    /\ i \in DOMAIN buttons
    /\ Len(fetches) + Len(timers) < MaxPending
    /\ InstallPage(clickCategory(PageObject, buttons[i]))
    /\ UNCHANGED <<categoriesFetch, lastCall, cartVars>>

Without(seq, i) == SubSeq(seq, 1, i - 1) \o SubSeq(seq, i + 1, Len(seq))

\* The fetch of the i-th getProducts call in flight settles (in any order:
\* nothing sequences the responses); the caller's .then callback follows in
\* the same turn and calls displayProducts(productAPI.products).
ProductsSettle(i, outcome) ==
    /\ i \in DOMAIN fetches
    /\ \E got \in {getProductsSettled([PageObject EXCEPT !.fetches = Without(@, i)],
                                      fetches[i].category, outcome,
                                      RemoteResponse(fetches[i].url))} :
           \E shown \in {displayProducts(got.page, got.page.products)} :
               /\ InstallPage(shown)
               /\ lastCall' = [op |-> "getProducts", arg |-> fetches[i].category,
                               categories |-> <<>>, products |-> got.value,
                               failed |-> got.failed]
    /\ UNCHANGED <<categoriesFetch, cartVars>>

\* The oldest render timer fires (equal delays fire in the order set).
RenderTimer ==
    /\ timers # <<>>
    /\ InstallPage(renderGrid([PageObject EXCEPT !.timers = Tail(@)], Head(timers).products))
    /\ UNCHANGED <<categoriesFetch, lastCall, cartVars>>

\* The categories a caller may hand to filterByCategory: the labels of
\* getCategories() and the labels formatCategory gives the products.
FilterArguments ==
    {All} \cup {capitalize(RemoteCategories[i]) : i \in DOMAIN RemoteCategories}
          \cup {formatCategory(RemoteCategories[i]) : i \in DOMAIN RemoteCategories}

\* productAPI.filterByCategory(category), synchronous, from any caller.
FilterByCategory(category) ==
    /\ cartStatus = "ready"
    /\ LET got == filterByCategory(PageObject, category)
       IN  /\ InstallPage(got.page)
           /\ lastCall' = [op |-> "filterByCategory", arg |-> category, categories |-> <<>>,
                           products |-> got.value, failed |-> got.failed]
    /\ UNCHANGED <<categoriesFetch, cartVars>>

\* The positions a category button, and a getProducts call in flight, can have.
ButtonPositions == 1..(Len(RemoteCategories) + 1)

FetchPositions == 1..MaxPending

CartNext ==
    \/ PageLoad
    \/ \E product \in Products : AddItem(product)
    \/ \E productId \in RemoveIds : RemoveItem(productId)
    \/ NotificationTimeout

CatalogNext ==
    \/ PageLoad
    \/ \E outcome \in Outcomes : CategoriesSettle(outcome)
    \/ \E i \in ButtonPositions : ClickCategory(i)
    \/ \E i \in FetchPositions, outcome \in Outcomes : ProductsSettle(i, outcome)
    \/ RenderTimer
    \/ \E category \in FilterArguments : FilterByCategory(category)

Init == CartInit /\ CatalogInit

Next == CartNext \/ CatalogNext

Spec == Init /\ [][Next]_vars

\* The cart alone, on a page whose catalog is left as loaded.
SpecCart == Init /\ [][CartNext]_vars

\* The catalog alone, on a page loaded over an empty blob store.
InitCatalog == Init /\ storage = Absent

SpecCatalog == InitCatalog /\ [][CatalogNext]_vars

\* One session of the products page: clicks, responses and render timers.
\* Every fetch issued settles and every timer set fires: the browser ends a
\* fetch with a response or a rejection, and runs a due setTimeout callback.
SessionNext ==
    \/ \E outcome \in Outcomes : CategoriesSettle(outcome)
    \/ \E i \in ButtonPositions : ClickCategory(i)
    \/ \E i \in FetchPositions, outcome \in Outcomes : ProductsSettle(i, outcome)
    \/ RenderTimer

SessionFairness ==
    /\ WF_vars(\E outcome \in Outcomes : CategoriesSettle(outcome))
    /\ WF_vars(\E i \in FetchPositions, outcome \in Outcomes : ProductsSettle(i, outcome))
    /\ WF_vars(RenderTimer)

SpecSession == InitCatalog /\ [][SessionNext]_vars /\ SessionFairness

(***************************************************************************)
(* Cart: properties                                                        *)
(***************************************************************************)
Ready == cartStatus = "ready"

\* The sum of f over the finite set S, independent of any order.
RECURSIVE SumOver(_, _)
SumOver(S, f) ==
    IF S = {} THEN 0
    ELSE LET x == CHOOSE y \in S : TRUE
         IN  f[x] + SumOver(S \ {x}, f)

Positions(its, id) == {i \in DOMAIN its : its[i].id = id}

IdsInCart == {items[i].id : i \in DOMAIN items}

NoDuplicateIds == \A i, j \in DOMAIN items : i # j => items[i].id # items[j].id

\* C1: from an empty cart, no two line items ever share an id; addItem of
\* an id already in the cart adds 1 to that item's quantity and changes
\* nothing else of the sequence, so an id added twice is one line item with
\* quantity 2.
C1_UniqueIds ==
    /\ [](Ready =>
            /\ NoDuplicateIds
            /\ \A id \in ProductIds :
                   adds[id] = 2 =>
                       /\ Cardinality(Positions(items, id)) = 1
                       /\ \A i \in Positions(items, id) : items[i].quantity = 2)
    /\ [][\A product \in Products :
              (AddItem(product) /\ Positions(items, product.id) # {}) =>
                  /\ Len(items') = Len(items)
                  /\ \A i \in DOMAIN items :
                         items'[i] = IF items[i].id = product.id
                                     THEN [items[i] EXCEPT !.quantity = items[i].quantity + 1]
                                     ELSE items[i]]_vars

C1_Witness ==
    /\ Ready
    /\ lastOp = [name |-> "addItem", arg |-> "product_1"]
    /\ adds["product_1"] = 2
    /\ Len(items) = 1
    /\ items[1].quantity = 2

Mutators == {"addItem", "removeItem"}

\* C2: once addItem or removeItem has returned, the text stored under
\* 'swiftcart_items' parses to exactly Cart.items, and the mutator changed
\* items, then saved, then refreshed the UI, then showed the notification.
C2_WriteThrough ==
    (Ready /\ lastOp.name \in Mutators) =>
        /\ storage.present
        /\ LET parsed == JSONparse(storage.text)
           IN  parsed.ok /\ ~parsed.null /\ parsed.value = items
        /\ log = <<"items", "saveToLocalStorage", "updateUI", "showNotification">>

C2_Witness ==
    /\ Ready
    /\ lastOp.name = "removeItem"
    /\ Len(items) = 2
    /\ \E i \in DOMAIN items : items[i].quantity = 2
    /\ JSONparse(storage.text).value = items

Malformed(store) == store.present /\ store.text # <<>> /\ ~JSONparse(store.text).ok

\* C3: with an unparseable value under the cart key, constructing the Cart
\* completes and yields the empty cart.
C3_MalformedLoadsEmpty == Malformed(storage) => (Ready /\ items = <<>>)

\* C4: a fresh Cart constructed over the blob store of a cart reached by
\* addItem/removeItem calls holds the same line items, fields and order.
C4_RoundTrip ==
    [][(Ready /\ PageLoad) => (cartStatus' = "ready" /\ items' = items)]_vars

C4_Witness ==
    /\ Ready
    /\ lastOp.name = "constructor"
    /\ Len(items) = 3
    /\ items[1].id = "product_3"
    /\ \E i \in DOMAIN items : items[i].quantity = 2

\* C5: removeItem(id) keeps every line item with another id, in the same
\* relative order, and drops every line item with that id (so nothing
\* changes when none matches); in both cases it persists, refreshes the UI
\* and shows the removal notification.
C5_RemoveFrame ==
    [][\A id \in RemoveIds :
          RemoveItem(id) =>
              /\ (Positions(items, id) = {} => items' = items)
              /\ Positions(items', id) = {}
              /\ Len(items') = Len(items) - Cardinality(Positions(items, id))
              /\ \A j \in DOMAIN items :
                     items[j].id # id =>
                         items'[j - Cardinality({i \in 1..j : items[i].id = id})] = items[j]
              /\ storage' = Blob(JSONstringify(items'))
              /\ cartUI'.count = SumOver(DOMAIN items', [i \in DOMAIN items' |-> items'[i].quantity])
              /\ cartUI'.summary = [i \in DOMAIN items' |-> items'[i].id]
              /\ notification' = [shown |-> TRUE, message |-> "Item removed from cart"]
              /\ log' = <<"items", "saveToLocalStorage", "updateUI", "showNotification">>]_vars

C5_Witness ==
    /\ Ready
    /\ lastOp = [name |-> "removeItem", arg |-> "product_9"]
    /\ Len(items) = 2
    /\ notification.message = "Item removed from cart"

LineTotals(its) == [i \in DOMAIN its |-> its[i].price * its[i].quantity]

\* s is the amount of cents written with exactly two decimal places.
TwoDecimals(s, cents) ==
    \E t, u \in 0..9 :
        /\ (cents - 10 * t - u) % 100 = 0
        /\ s = ToString((cents - 10 * t - u) \div 100) \o "." \o ToString(t) \o ToString(u)

\* C6: getTotal() is the sum of price * quantity over the line items, as a
\* string with exactly two decimal places: "0.00" for the empty cart and
\* "25.00" for {price 10, quantity 1} and {price 5, quantity 3}.
C6_Total ==
    Ready =>
        /\ TwoDecimals(getTotal(items), SumOver(DOMAIN items, LineTotals(items)))
        /\ (items = <<>> => getTotal(items) = "0.00")
        /\ ({<<items[i].price, items[i].quantity>> : i \in DOMAIN items} = {<<1000, 1>>, <<500, 3>>}
                => getTotal(items) = "25.00")

C6_Witness ==
    /\ Ready
    /\ Len(items) = 2
    /\ {<<items[i].price, items[i].quantity>> : i \in DOMAIN items} = {<<1000, 1>>, <<500, 3>>}
    /\ cartUI.subtotal = "$25.00"

\* C7: getCount() is the sum of the quantities, which is the number of
\* addItem calls made for the ids now in the cart since each was last
\* removed; the badge shows it after every mutator.
C7_Count ==
    Ready =>
        /\ getCount(items) = SumOver(DOMAIN items, [i \in DOMAIN items |-> items[i].quantity])
        /\ getCount(items) = SumOver(IdsInCart, adds)
        /\ (lastOp.name \in Mutators => cartUI.count = getCount(items))
        /\ ((adds["product_1"] = 1 /\ adds["product_2"] = 3 /\ adds["product_3"] = 0)
                => getCount(items) = 4)

C7_Witness ==
    /\ Ready
    /\ lastOp.name = "addItem"
    /\ adds["product_1"] = 1 /\ adds["product_2"] = 3 /\ adds["product_3"] = 0
    /\ cartUI.count = 4
    /\ Len(items) = 2

(***************************************************************************)
(* Catalog: properties                                                     *)
(***************************************************************************)
\* "All", then each slug of RemoteCategories with its first letter in upper case.
CapitalizedLabels ==
    << <<"A", "l", "l">>,
       <<"E", "l", "e", "c", "t", "r", "o", "n", "i", "c", "s">>,
       <<"J", "e", "w", "e", "l", "e", "r", "y">>,
       <<"M", "e", "n", "'", "s", " ", "c", "l", "o", "t", "h", "i", "n", "g">>,
       <<"W", "o", "m", "e", "n", "'", "s", " ", "c", "l", "o", "t", "h", "i", "n", "g">> >>

\* C8: getCategories() resolves, to a sequence that starts with "All": on
\* success "All" and the capitalized slugs in the remote's order, on a
\* network or parse failure exactly ["All"]; the caller's callback runs on
\* the value either way (the buttons rendered are that sequence).
C8_CategoriesStartWithAll ==
    lastCall.op = "getCategories" =>
        /\ lastCall.categories # <<>>
        /\ lastCall.categories[1] = <<"A", "l", "l">>
        /\ (lastCall.failed => lastCall.categories = << <<"A", "l", "l">> >>)
        /\ (~lastCall.failed => lastCall.categories = CapitalizedLabels)
        /\ buttons = lastCall.categories

C8_Witness ==
    /\ lastCall.op = "getCategories"
    /\ lastCall.failed
    /\ buttons = << <<"A", "l", "l">> >>
    /\ Len(fetches) = 1

\* C9: when the fetch of a getProducts call fails, getProducts returns the
\* empty sequence and the list handed to displayProducts for that call is
\* empty, whatever the catalog held before.
C9_FailureRendersEmpty ==
    [][\A i \in DOMAIN fetches : \A outcome \in Outcomes \ {"ok"} :
          ProductsSettle(i, outcome) =>
              /\ lastCall'.products = <<>>
              /\ timers'[Len(timers')].products = <<>>]_vars

\* A step in which filterByCategory was called and returned: only that call
\* records itself as the last call that returned.
FilterStep == lastCall'.op = "filterByCategory" /\ lastCall' # lastCall

\* C10: filterByCategory leaves productAPI.products and selectedCategory as
\* they are, and filterByCategory("All") returns productAPI.products itself.
C10_FilterAllFrame ==
    [][FilterStep =>
          /\ products' = products
          /\ selectedCategory' = selectedCategory
          /\ (lastCall'.arg = <<"A", "l", "l">> => lastCall'.products = products)]_vars

C10_Witness ==
    /\ lastCall.op = "filterByCategory"
    /\ lastCall.arg = <<"A", "l", "l">>
    /\ selectedCategory = CapitalizedLabels[2]
    /\ Len(products) = 2
    /\ lastCall.products = products

\* The remote ids of the products a request for the category label answers
\* with: every product for "All", else those of the slug the label stands for.
RemoteIdsOf(label) ==
    IF label = <<"A", "l", "l">> THEN {RemoteProducts[i].id : i \in DOMAIN RemoteProducts}
    ELSE {RemoteProducts[i].id :
             i \in {j \in DOMAIN RemoteProducts :
                       \E k \in DOMAIN RemoteCategories :
                           /\ CapitalizedLabels[k + 1] = label
                           /\ RemoteProducts[j].category = RemoteCategories[k]}}

ApiIds(list) == {list[i].apiId : i \in DOMAIN list}

\* A step in which the fetch of a getProducts call settled with a body.
SettledOkStep ==
    /\ lastCall'.op = "getProducts"
    /\ ~lastCall'.failed
    /\ Len(fetches') = Len(fetches) - 1

NoRequestPending == ~categoriesFetch /\ fetches = <<>>

Quiet == NoRequestPending /\ timers = <<>>

\* C11: nothing cancels or sequences product fetches. Whatever request was
\* issued last (its category is the highlighted button), a response that
\* arrives is applied: the catalog and the selected category become those of
\* the response's own request, and that list is the one queued for
\* rendering; once nothing is pending the grid shows the catalog of the
\* response that arrived last. So with A selected, then B, and A answered
\* after B, the catalog and grid hold A's products under the highlighted B.
C11_LastArrivalWins ==
    /\ [][SettledOkStep =>
             /\ ApiIds(products') = RemoteIdsOf(lastCall'.arg)
             /\ Len(products') = Cardinality(RemoteIdsOf(lastCall'.arg))
             /\ selectedCategory' = lastCall'.arg
             /\ activeButtons' = activeButtons
             /\ timers'[Len(timers')].products = products']_vars
    /\ []((Quiet /\ grid.rendered) =>
             grid.cards = [i \in DOMAIN products |->
                              [productId |-> products[i].id, apiId |-> products[i].apiId]])

\* Jewelery was selected, then Electronics; the Electronics response came
\* first and the Jewelery response second.
C11_Witness ==
    /\ fetches = <<>>
    /\ Len(timers) = 2
    /\ ApiIds(timers[1].products) = {9, 10}
    /\ ApiIds(timers[2].products) = {5}
    /\ ApiIds(products) = {5}
    /\ selectedCategory = CapitalizedLabels[3]
    /\ activeButtons = {CapitalizedLabels[2]}

\* The products of list whose originalCategory is slug, in order.
RECURSIVE OfOriginalCategory(_, _)
OfOriginalCategory(list, slug) ==
    IF list = <<>> THEN <<>>
    ELSE IF list[1].originalCategory = slug
         THEN <<list[1]>> \o OfOriginalCategory(Tail(list), slug)
    ELSE OfOriginalCategory(Tail(list), slug)

FullCatalog == Len(products) = Len(RemoteProducts)

\* C12: for each label L that getCategories() gives a slug, a request for L
\* asks the remote for that slug, and filterByCategory(L) over the full
\* catalog returns exactly the products whose originalCategory is that slug.
C12_LabelsConsistent ==
    \A k \in DOMAIN RemoteCategories :
        LET label == CapitalizedLabels[k + 1]
            slug == RemoteCategories[k]
        IN  /\ \A i \in DOMAIN fetches :
                   fetches[i].category = label =>
                       fetches[i].url = [path |-> "category", slug |-> slug]
            /\ (/\ FullCatalog
                /\ \E c \in DOMAIN categories : categories[c] = label
                /\ lastCall.op = "filterByCategory"
                /\ lastCall.arg = label) =>
                   lastCall.products = OfOriginalCategory(products, slug)

\* A step in which a category button was clicked: a request is issued on a
\* page whose categories have arrived.
ClickStep == ~categoriesFetch /\ Len(fetches') = Len(fetches) + 1

\* C13: with every fetch settling and every render timer firing, the page
\* comes to rest (no fetch in flight, no render pending) unless the clicks
\* never stop; at rest the spinner is hidden, and only a click shows it again.
C13_SpinnerHidden ==
    /\ [](Quiet => spinner = "none")
    /\ [][(Quiet /\ spinner' # spinner) => ClickStep]_vars
    /\ ([]<>Quiet \/ []<><<ClickStep>>_vars)

\* At rest after a click on another category whose fetch failed.
C13_Witness ==
    /\ Quiet
    /\ spinner = "none"
    /\ grid.rendered
    /\ lastCall.op = "getProducts"
    /\ lastCall.failed
    /\ activeButtons = {CapitalizedLabels[4]}

====
